---- MODULE Spec2Model ----
(***************************************************************************)
(* Interaction gates of the scene: the reducer of the scene store, the     *)
(* Saturn timing secret (SaturnObject.checkTimingSecret) and the triangle  *)
(* breath gate (TriangleObject.updateBreath / checkBreathClick).           *)
(***************************************************************************)
EXTENDS Integers, Sequences, FiniteSets, TLC

VARIABLES
    state,        \* the store's value (sceneStore)
    dispatched,   \* history: type of the action most recently dispatched
    saturn,       \* SaturnObject: saturnCounter, lastSixMoment, saturnSecretUnlocked
    saturnSeconds,\* history: the seconds of the latest checkTimingSecret call
    saturnLog,    \* history: the most recent checkTimingSecret calls, oldest first
    now,          \* Date.now(), in milliseconds
    tri,          \* TriangleObject: the breath state and its pending glow timers
    triLog,       \* history: the most recent checkBreathClick calls since show()
    flower,       \* FlowerOfLife: the click gate, the colours and the reveal timers
    flowerLog,    \* history: the latest handleClick call
    comp,         \* the component: its local variables and its magicMode property
    frameLog,     \* history: the latest animation frame
    keyLog,       \* history: the latest key stroke
    reveal        \* the cube's pose against a view direction, and its strength

storeVars == <<state, dispatched>>
saturnVars == <<saturn, saturnSeconds, saturnLog>>
triVars == <<now, tri, triLog>>
flowerVars == <<flower, flowerLog>>
sceneVars == <<comp, frameLog, keyLog, reveal>>
vars == <<state, dispatched, saturn, saturnSeconds, saturnLog, now, tri, triLog,
          flower, flowerLog, comp, frameLog, keyLog, reveal>>

(***************************************************************************)
(* The scene store.  The metadata field `timestamp` (Date.now() at each    *)
(* reduction) is read by no code and is left out of the record.            *)
(***************************************************************************)

\* ACTION_TYPES: the fifteen keys of the table.
ACTION_TYPES ==
    { "SHOW_CUBE", "SHOW_SATURN", "SHOW_TRIANGLE", "SHOW_FLOWER",
      "TOGGLE_AUTO_ROTATE", "SET_AUTO_ROTATE",
      "UNLOCK_CUBE_SECRET", "UNLOCK_SATURN_SECRET", "UNLOCK_TRINITY_SECRET",
      "UPDATE_MOUSE_POSITION", "UPDATE_ROTATION",
      "SET_LOADING", "SET_ERROR", "SET_STATUS", "RESET_STATE" }

\* ACTION_TYPES.SET_PERFORMANCE_MODE is no key of the table: the case label
\* evaluates to undefined, so that case is taken by an action whose type is
\* undefined (written "undefined" here).
SET_PERFORMANCE_MODE == "undefined"

initialState ==
    [ showCube |-> TRUE, showSaturn |-> FALSE, showTriangle |-> FALSE,
      showFlower |-> FALSE,
      autoRotate |-> TRUE,
      cubeSecretUnlocked |-> FALSE, saturnSecretUnlocked |-> FALSE,
      trinitySecretUnlocked |-> FALSE,
      mouseX |-> 0, mouseY |-> 0, saturnRotationX |-> 0, saturnRotationY |-> 0,
      isLoading |-> TRUE, error |-> "null", status |-> "init",
      performanceMode |-> "absent",
      lastAction |-> "null" ]

ShowCubeFromInitial(s, a) ==
    [ initialState EXCEPT !.lastAction = a.type ]

ShowCubeCase(s, a) ==
    [ s EXCEPT !.showCube = TRUE, !.showSaturn = FALSE, !.showTriangle = FALSE,
               !.showFlower = FALSE, !.lastAction = a.type ]

ShowSaturnKeepsCube(s, a) ==
    [ s EXCEPT !.showSaturn = TRUE, !.showTriangle = FALSE,
               !.showFlower = FALSE, !.lastAction = a.type ]

ShowSaturnCase(s, a) ==
    [ s EXCEPT !.showCube = FALSE, !.showSaturn = TRUE, !.showTriangle = FALSE,
               !.showFlower = FALSE, !.lastAction = a.type ]

ShowTriangleCase(s, a) ==
    [ s EXCEPT !.showCube = FALSE, !.showSaturn = FALSE, !.showTriangle = TRUE,
               !.showFlower = FALSE, !.lastAction = a.type ]

ShowFlowerCase(s, a) ==
    [ s EXCEPT !.showCube = FALSE, !.showSaturn = FALSE, !.showTriangle = FALSE,
               !.showFlower = TRUE, !.lastAction = a.type ]

reducer(s, a) ==
    CASE a.type = "SHOW_CUBE" -> ShowCubeCase(s, a)
      [] a.type = "SHOW_SATURN" -> ShowSaturnCase(s, a)
      [] a.type = "SHOW_TRIANGLE" -> ShowTriangleCase(s, a)
      [] a.type = "SHOW_FLOWER" -> ShowFlowerCase(s, a)
      [] a.type = "TOGGLE_AUTO_ROTATE" ->
            [ s EXCEPT !.autoRotate = ~s.autoRotate, !.lastAction = a.type ]
      [] a.type = "SET_AUTO_ROTATE" ->
            [ s EXCEPT !.autoRotate = a.payload, !.lastAction = a.type ]
      [] a.type = "UNLOCK_CUBE_SECRET" ->
            [ s EXCEPT !.cubeSecretUnlocked = TRUE, !.lastAction = a.type ]
      [] a.type = "UNLOCK_SATURN_SECRET" ->
            [ s EXCEPT !.saturnSecretUnlocked = TRUE, !.lastAction = a.type ]
      [] a.type = "UNLOCK_TRINITY_SECRET" ->
            [ s EXCEPT !.trinitySecretUnlocked = TRUE, !.lastAction = a.type ]
      [] a.type = "UPDATE_MOUSE_POSITION" ->
            [ s EXCEPT !.mouseX = a.payload.x, !.mouseY = a.payload.y,
                       !.lastAction = a.type ]
      [] a.type = "UPDATE_ROTATION" ->
            [ s EXCEPT !.saturnRotationX = a.payload.x,
                       !.saturnRotationY = a.payload.y, !.lastAction = a.type ]
      [] a.type = "SET_LOADING" ->
            [ s EXCEPT !.isLoading = a.payload, !.lastAction = a.type ]
      [] a.type = "SET_ERROR" ->
            [ s EXCEPT !.error = a.payload, !.isLoading = FALSE,
                       !.status = "error", !.lastAction = a.type ]
      [] a.type = "SET_STATUS" ->
            [ s EXCEPT !.status = a.payload, !.lastAction = a.type ]
      [] a.type = SET_PERFORMANCE_MODE ->
            [ s EXCEPT !.performanceMode = a.payload, !.lastAction = a.type ]
      [] a.type = "RESET_STATE" -> initialState
      [] OTHER -> s

\* The action creators (`actions`), with the payloads the model draws.
NoPayloadTypes ==
    { "SHOW_CUBE", "SHOW_SATURN", "SHOW_TRIANGLE", "SHOW_FLOWER",
      "TOGGLE_AUTO_ROTATE", "UNLOCK_CUBE_SECRET", "UNLOCK_SATURN_SECRET",
      "UNLOCK_TRINITY_SECRET", "RESET_STATE" }

PointPayloads == { [x |-> 0, y |-> 0], [x |-> 1, y |-> -1] }

\* dispatch(action): update(state => reducer(state, action))
dispatch(a) ==
    /\ state' = reducer(state, a)
    /\ dispatched' = a.type
    /\ UNCHANGED <<saturnVars, triVars, flowerVars, sceneVars>>

DispatchPlain ==
    \E t \in NoPayloadTypes : dispatch([type |-> t])

DispatchFlag ==
    \E t \in {"SET_AUTO_ROTATE", "SET_LOADING"}, b \in BOOLEAN :
        dispatch([type |-> t, payload |-> b])

DispatchPoint ==
    \E t \in {"UPDATE_MOUSE_POSITION", "UPDATE_ROTATION"}, p \in PointPayloads :
        dispatch([type |-> t, payload |-> p])

DispatchText ==
    \/ dispatch([type |-> "SET_ERROR", payload |-> "boom"])
    \/ \E st \in {"init", "ready"} : dispatch([type |-> "SET_STATUS", payload |-> st])

\* An action whose type is no key of ACTION_TYPES, and one with no type at all.
DispatchUnknown ==
    \/ dispatch([type |-> "NOT_AN_ACTION"])
    \/ dispatch([type |-> "undefined", payload |-> "low"])

StoreInit ==
    /\ state = initialState
    /\ dispatched = "none"

StoreNext ==
    \/ DispatchPlain
    \/ DispatchFlag
    \/ DispatchPoint
    \/ DispatchText
    \/ DispatchUnknown

(***************************************************************************)
(* SaturnObject: the timing secret.                                        *)
(***************************************************************************)

\* Date.prototype.getSeconds() yields 0..MaxSecond.
MaxSecond == 59
\* saturnCounter has no upper limit in the code; the model stops counting here.
MaxSaturnCounter == 4

RECURSIVE toString(_)
\* Number.prototype.toString: the decimal digits, most significant first.
toString(n) ==
    IF n < 10 THEN <<n>> ELSE Append(toString(n \div 10), n % 10)

\* String.prototype.padStart(targetLength, '0')
RECURSIVE padStart(_, _)
padStart(str, targetLength) ==
    IF Len(str) >= targetLength THEN str
    ELSE padStart(<<0>> \o str, targetLength)

\* String.prototype.includes for a one-character needle.
includes(str, digit) == \E i \in 1..Len(str) : str[i] = digit

\* Whether the two-digit seconds string contains the digit 6.
containsSix(seconds) == includes(padStart(toString(seconds), 2), 6)

\* Variants of checkTimingSecret, each with one slip.
\* The unlock test written `> 3`.
checkTimingSecretLateUnlock(self, seconds) ==
    IF ~containsSix(seconds)
    THEN [ obj |-> [self EXCEPT !.saturnCounter = 0, !.lastSixMoment = seconds],
           ret |-> FALSE ]
    ELSE IF self.lastSixMoment = seconds
    THEN [ obj |-> self, ret |-> FALSE ]
    ELSE LET counted == [self EXCEPT !.lastSixMoment = seconds,
                                     !.saturnCounter = self.saturnCounter + 1]
         IN  IF counted.saturnCounter > 3
             THEN [ obj |-> [counted EXCEPT !.saturnSecretUnlocked = TRUE],
                    ret |-> TRUE ]
             ELSE [ obj |-> counted, ret |-> FALSE ]

\* The same-second guard left out.
checkTimingSecretNoGuard(self, seconds) ==
    IF ~containsSix(seconds)
    THEN [ obj |-> [self EXCEPT !.saturnCounter = 0, !.lastSixMoment = seconds],
           ret |-> FALSE ]
    ELSE LET counted == [self EXCEPT !.lastSixMoment = seconds,
                                     !.saturnCounter = self.saturnCounter + 1]
         IN  IF counted.saturnCounter >= 3
             THEN [ obj |-> [counted EXCEPT !.saturnSecretUnlocked = TRUE],
                    ret |-> TRUE ]
             ELSE [ obj |-> counted, ret |-> FALSE ]

\* The same-second guard resetting the counter.
checkTimingSecretGuardResets(self, seconds) ==
    IF ~containsSix(seconds)
    THEN [ obj |-> [self EXCEPT !.saturnCounter = 0, !.lastSixMoment = seconds],
           ret |-> FALSE ]
    ELSE IF self.lastSixMoment = seconds
    THEN [ obj |-> [self EXCEPT !.saturnCounter = 0], ret |-> FALSE ]
    ELSE LET counted == [self EXCEPT !.lastSixMoment = seconds,
                                     !.saturnCounter = self.saturnCounter + 1]
         IN  IF counted.saturnCounter >= 3
             THEN [ obj |-> [counted EXCEPT !.saturnSecretUnlocked = TRUE],
                    ret |-> TRUE ]
             ELSE [ obj |-> counted, ret |-> FALSE ]

\* The wrong-time branch not resetting the counter.
checkTimingSecretNoReset(self, seconds) ==
    IF ~containsSix(seconds)
    THEN [ obj |-> [self EXCEPT !.lastSixMoment = seconds], ret |-> FALSE ]
    ELSE IF self.lastSixMoment = seconds
    THEN [ obj |-> self, ret |-> FALSE ]
    ELSE LET counted == [self EXCEPT !.lastSixMoment = seconds,
                                     !.saturnCounter = self.saturnCounter + 1]
         IN  IF counted.saturnCounter >= 3
             THEN [ obj |-> [counted EXCEPT !.saturnSecretUnlocked = TRUE],
                    ret |-> TRUE ]
             ELSE [ obj |-> counted, ret |-> FALSE ]

\* checkTimingSecret(currentTime), with seconds = currentTime.getSeconds():
\* the object after the call and the value returned.
checkTimingSecret(self, seconds) ==
    IF ~containsSix(seconds)
    THEN [ obj |-> [self EXCEPT !.saturnCounter = 0, !.lastSixMoment = seconds],
           ret |-> FALSE ]
    ELSE IF self.lastSixMoment = seconds
    THEN [ obj |-> self, ret |-> FALSE ]
    ELSE LET counted == [self EXCEPT !.lastSixMoment = seconds,
                                     !.saturnCounter = self.saturnCounter + 1]
         IN  IF counted.saturnCounter >= 3
             THEN [ obj |-> [counted EXCEPT !.saturnSecretUnlocked = TRUE],
                    ret |-> TRUE ]
             ELSE [ obj |-> counted, ret |-> FALSE ]

\* The last three entries of a history.
Recent(log) ==
    IF Len(log) <= 3 THEN log ELSE SubSeq(log, Len(log) - 2, Len(log))

\* A history entry notes whether the seconds had a digit 6 (six), whether they
\* were those of the call before (repeat), whether they were the recorded
\* lastSixMoment (recorded), and what the call did.
TimingCallEntry(seconds, r) ==
    [six |-> containsSix(seconds),
     repeat |-> (seconds = saturnSeconds),
     recorded |-> (seconds = saturn.lastSixMoment),
     before |-> saturn.saturnCounter,
     counter |-> r.obj.saturnCounter,
     unlockedBefore |-> saturn.saturnSecretUnlocked,
     unlocked |-> r.obj.saturnSecretUnlocked,
     same |-> (r.obj = saturn),
     ret |-> r.ret]

CheckTimingSecret ==
    \E seconds \in 0..MaxSecond :
        LET r == checkTimingSecret(saturn, seconds) IN
        /\ r.obj.saturnCounter <= MaxSaturnCounter
        /\ saturn' = r.obj
        /\ saturnSeconds' = seconds
        /\ saturnLog' = Recent(Append(saturnLog, TimingCallEntry(seconds, r)))
        /\ UNCHANGED <<storeVars, triVars, flowerVars, sceneVars>>

\* No call has been made yet: saturnSeconds is -1.
SaturnInit ==
    /\ saturn = [saturnCounter |-> 0, lastSixMoment |-> 0,
                 saturnSecretUnlocked |-> FALSE]
    /\ saturnSeconds = -1
    /\ saturnLog = << >>

SaturnNext == CheckTimingSecret

(***************************************************************************)
(* TriangleObject: the breath gate.  Times are whole milliseconds, as       *)
(* Date.now() gives them.  The code divides by 1000 and works in seconds   *)
(* with doubles; the double remainder and floor agree with the integer     *)
(* ones except at elapsed times of exactly 6000k+1300 or 6000k+1700 ms     *)
(* (7.3 % 6 is 1.2999999999999998), and the instants drawn here, whole     *)
(* multiples of TickMs, are never such values.                             *)
(***************************************************************************)

\* The clock advances in steps of TickMs, up to MaxTime.
TickMs == 200
MaxTime == 9200
\* The horizon of the runs in which the triangle stays shown.
MaxBreathTime == 20000

\* cycleDuration = 6 (seconds)
cycleDuration == 6000
\* phaseTime < 3: inhale
inhaleDuration == 3000
\* isPeakMoment: phaseTime >= 1.3 && phaseTime <= 1.7
peakStart == 1300
peakEnd == 1700
\* setTimeout(..., 500)
glowDuration == 500
\* breathCounter >= 3
trinity == 3

\* A pending setTimeout is named by its deadline; glowTimeout = 0 is null.
\* tri.timers is the host's queue of this object's pending timeouts.

\* updateBreath() taking every call for the first one.
updateBreathReanchors(self, currentTime) ==
    [self EXCEPT !.breathStartTime = currentTime,
                 !.lastClickCycle = -1,
                 !.breathPhase = "inhale"]

\* updateBreath(), with currentTime = Date.now().  The edge colours it paints
\* are output only and are not part of the state here.
updateBreath(self, currentTime) ==
    LET anchored == IF self.breathStartTime = 0
                    THEN [self EXCEPT !.breathStartTime = currentTime,
                                      !.lastClickCycle = -1]
                    ELSE self
        elapsed == currentTime - anchored.breathStartTime
        phaseTime == elapsed % cycleDuration
        newPhase == IF phaseTime < inhaleDuration THEN "inhale" ELSE "exhale"
    IN  [anchored EXCEPT !.breathPhase = newPhase]

\* isPeakMoment and currentCycle of checkBreathClick.
isPeakMoment(self, currentTime) ==
    LET phaseTime == (currentTime - self.breathStartTime) % cycleDuration
    IN  phaseTime >= peakStart /\ phaseTime <= peakEnd

currentCycle(self, currentTime) ==
    (currentTime - self.breathStartTime) \div cycleDuration

\* The credited branch without the clearTimeout of the pending timer.
creditClickKeepsTimer(self, currentTime) ==
    [self EXCEPT !.lastClickCycle = currentCycle(self, currentTime),
                 !.breathCounter = self.breathCounter + 1,
                 !.triangleGlowActive = TRUE,
                 !.timers = self.timers \cup {currentTime + glowDuration},
                 !.glowTimeout = currentTime + glowDuration]

\* The credited branch up to the trinity test: counter, glow and glow timer.
creditClick(self, currentTime) ==
    [self EXCEPT !.lastClickCycle = currentCycle(self, currentTime),
                 !.breathCounter = self.breathCounter + 1,
                 !.triangleGlowActive = TRUE,
                 !.timers = (IF self.glowTimeout # 0
                             THEN self.timers \ {self.glowTimeout}
                             ELSE self.timers) \cup {currentTime + glowDuration},
                 !.glowTimeout = currentTime + glowDuration]

\* The wrong-timing branch.
missClick(self) ==
    LET reset == [self EXCEPT !.breathCounter = 0, !.lastClickCycle = -1]
    IN  IF self.triangleGlowActive
        THEN IF self.glowTimeout # 0
             THEN [reset EXCEPT !.triangleGlowActive = FALSE,
                                !.timers = self.timers \ {self.glowTimeout},
                                !.glowTimeout = 0]
             ELSE [reset EXCEPT !.triangleGlowActive = FALSE]
        ELSE reset

\* Variants of checkBreathClick, each with one slip.
\* The trinity test written `> 3`.
checkBreathClickLateTrinity(self, currentTime) ==
    IF isPeakMoment(self, currentTime)
    THEN IF currentCycle(self, currentTime) = self.lastClickCycle
         THEN [ obj |-> self, ret |-> FALSE ]
         ELSE LET credited == creditClick(self, currentTime)
              IN  IF credited.breathCounter > trinity
                  THEN [ obj |-> [credited EXCEPT !.breathCounter = 0,
                                                  !.lastClickCycle = -1],
                         ret |-> TRUE ]
                  ELSE [ obj |-> credited, ret |-> FALSE ]
    ELSE [ obj |-> missClick(self), ret |-> FALSE ]

\* The wrong-timing branch leaving the counter alone.
checkBreathClickMissKeeps(self, currentTime) ==
    IF isPeakMoment(self, currentTime)
    THEN IF currentCycle(self, currentTime) = self.lastClickCycle
         THEN [ obj |-> self, ret |-> FALSE ]
         ELSE LET credited == creditClick(self, currentTime)
              IN  IF credited.breathCounter >= trinity
                  THEN [ obj |-> [credited EXCEPT !.breathCounter = 0,
                                                  !.lastClickCycle = -1],
                         ret |-> TRUE ]
                  ELSE [ obj |-> credited, ret |-> FALSE ]
    ELSE [ obj |-> [missClick(self) EXCEPT !.breathCounter = self.breathCounter],
           ret |-> FALSE ]

\* The same-cycle guard left out.
checkBreathClickNoGuard(self, currentTime) ==
    IF isPeakMoment(self, currentTime)
    THEN LET credited == creditClick(self, currentTime)
         IN  IF credited.breathCounter >= trinity
             THEN [ obj |-> [credited EXCEPT !.breathCounter = 0,
                                             !.lastClickCycle = -1],
                    ret |-> TRUE ]
             ELSE [ obj |-> credited, ret |-> FALSE ]
    ELSE [ obj |-> missClick(self), ret |-> FALSE ]

\* The same-cycle guard treated as wrong timing.
checkBreathClickGuardResets(self, currentTime) ==
    IF isPeakMoment(self, currentTime)
    THEN IF currentCycle(self, currentTime) = self.lastClickCycle
         THEN [ obj |-> missClick(self), ret |-> FALSE ]
         ELSE LET credited == creditClick(self, currentTime)
              IN  IF credited.breathCounter >= trinity
                  THEN [ obj |-> [credited EXCEPT !.breathCounter = 0,
                                                  !.lastClickCycle = -1],
                         ret |-> TRUE ]
                  ELSE [ obj |-> credited, ret |-> FALSE ]
    ELSE [ obj |-> missClick(self), ret |-> FALSE ]

\* checkBreathClick(), with currentTime = Date.now(): the object after the
\* call and the value returned.
checkBreathClick(self, currentTime) ==
    IF isPeakMoment(self, currentTime)
    THEN IF currentCycle(self, currentTime) = self.lastClickCycle
         THEN [ obj |-> self, ret |-> FALSE ]
         ELSE LET credited == creditClick(self, currentTime)
              IN  IF credited.breathCounter >= trinity
                  THEN [ obj |-> [credited EXCEPT !.breathCounter = 0,
                                                  !.lastClickCycle = -1],
                         ret |-> TRUE ]
                  ELSE [ obj |-> credited, ret |-> FALSE ]
    ELSE [ obj |-> missClick(self), ret |-> FALSE ]

\* show(): the triangle exists once create() has run.
show(self) ==
    [self EXCEPT !.visible = TRUE, !.breathStartTime = 0, !.breathCounter = 0,
                 !.lastClickCycle = -1, !.triangleGlowActive = FALSE]

\* hide()
hide(self) == [self EXCEPT !.visible = FALSE]

\* The callback given to setTimeout by the credited branch.
glowTimeoutCallback(self, handle) ==
    [self EXCEPT !.triangleGlowActive = FALSE, !.glowTimeout = 0,
                 !.timers = self.timers \ {handle}]

\* Time passes; a timeout that is due runs before the clock moves on.
Tick ==
    /\ now + TickMs <= MaxTime
    /\ \A h \in tri.timers : now < h
    /\ now' = now + TickMs
    /\ UNCHANGED <<tri, triLog, storeVars, saturnVars, flowerVars, sceneVars>>

UpdateBreath ==
    /\ tri' = updateBreath(tri, now)
    /\ UNCHANGED <<now, triLog, storeVars, saturnVars, flowerVars, sceneVars>>

\* The history entry of a checkBreathClick call on `tri` at `now`.
BreathClickEntry(r) ==
    [anchor |-> tri.breathStartTime,
     cycle |-> currentCycle(tri, now),
     peak |-> isPeakMoment(tri, now),
     before |-> tri.breathCounter,
     counter |-> r.obj.breathCounter,
     ret |-> r.ret,
     same |-> (r.obj = tri),
     glowBefore |-> tri.triangleGlowActive,
     glow |-> r.obj.triangleGlowActive,
     last |-> r.obj.lastClickCycle,
     pendingBefore |-> (tri.timers # {}),
     pending |-> (r.obj.timers # {})]

CheckBreathClick ==
    LET r == checkBreathClick(tri, now) IN
    /\ tri' = r.obj
    /\ triLog' = Recent(Append(triLog, BreathClickEntry(r)))
    /\ UNCHANGED <<now, storeVars, saturnVars, flowerVars, sceneVars>>

Show ==
    /\ tri' = show(tri)
    /\ triLog' = << >>
    /\ UNCHANGED <<now, storeVars, saturnVars, flowerVars, sceneVars>>

Hide ==
    /\ tri.visible
    /\ tri' = hide(tri)
    /\ UNCHANGED <<now, triLog, storeVars, saturnVars, flowerVars, sceneVars>>

GlowTimeoutFires ==
    \E h \in tri.timers :
        /\ now >= h
        /\ tri' = glowTimeoutCallback(tri, h)
        /\ UNCHANGED <<now, triLog, storeVars, saturnVars, flowerVars, sceneVars>>

\* The same, in the runs in which the triangle stays shown.
TickShown ==
    /\ now + TickMs <= MaxBreathTime
    /\ \A h \in tri.timers : now < h
    /\ now' = now + TickMs
    /\ UNCHANGED <<tri, triLog, storeVars, saturnVars, flowerVars, sceneVars>>

\* The object after new TriangleObject(scene) and create().
TriangleConstructed ==
    [ breathStartTime |-> 0, breathPhase |-> "inhale",
      breathCounter |-> 0, triangleGlowActive |-> FALSE,
      glowTimeout |-> 0, lastClickCycle |-> -1,
      visible |-> FALSE, timers |-> {} ]

TriangleInit ==
    /\ now = TickMs
    /\ tri = TriangleConstructed
    /\ triLog = << >>

\* The triangle has been shown and its first frame has set the cycle anchor.
ShownInit ==
    /\ now = TickMs
    /\ tri = updateBreath(show(TriangleConstructed), TickMs)
    /\ triLog = << >>

TriangleNext ==
    \/ Tick
    \/ UpdateBreath
    \/ CheckBreathClick
    \/ Show
    \/ Hide
    \/ GlowTimeoutFires

\* The triangle stays shown: no show() or hide() after the first frame.
ShownNext ==
    \/ TickShown
    \/ UpdateBreath
    \/ CheckBreathClick
    \/ GlowTimeoutFires

(***************************************************************************)
(* FlowerOfLife: the thirteen circles and the order in which they must be  *)
(* clicked.  The object is taken after create(): flowerGroup exists and is *)
(* hidden, and nodeMap holds the circles 0..12.                            *)
(***************************************************************************)

FRUIT_OF_LIFE_ORDER == <<0, 1, 3, 5, 2, 4, 6, 7, 9, 11, 8, 10, 12>>

\* this.metatronClicks.length === 13
patternLength == 13
\* setTimeout(..., 500) of the completed pattern
revealDelay == 500

\* The keys of nodeMap: circle 0, the ring 1..6 and the ring 7..12.
CircleIds == 0..12

\* The ids a clicked object may carry: those of the circles, and up to
\* MaxClickId for an object that is none of them.
MaxClickId == 13
\* The reveal timeouts the host may hold at one time.
MaxRevealTimers == 2
\* The horizon of the runs of the flower alone.
MaxFlowerTime == 1000

\* What the raycaster reports as intersects[0].object: nothing, a circle's
\* tube (userData.isNode is undefined and no ancestor is a node), or a node.
ClickTargets ==
    {[kind |-> "none", id |-> 0]}
      \cup [kind : {"circle"}, id : {0, 12}]
      \cup [kind : {"node"}, id : 0..MaxClickId]

\* FRUIT_OF_LIFE_ORDER[i] of a zero-based index; past the end the read gives
\* undefined, which is equal to no id (written -1 here).
expectedAt(i) ==
    IF i + 1 \in DOMAIN FRUIT_OF_LIFE_ORDER THEN FRUIT_OF_LIFE_ORDER[i + 1] ELSE -1

\* reset() leaving the circles as they are.
resetKeepsColors(self) ==
    [self EXCEPT !.metatronClicks = << >>, !.showMetatron = FALSE]

\* reset()
reset(self) ==
    [self EXCEPT !.metatronClicks = << >>,
                 !.showMetatron = FALSE,
                 !.color = [i \in CircleIds |-> "white"]]

\* The accepted branch with the completion test one click early.
acceptClickEarly(self, clickedId, currentTime) ==
    LET pushed == [self EXCEPT
                     !.metatronClicks = Append(@, clickedId),
                     !.color = IF clickedId \in CircleIds
                               THEN [@ EXCEPT ![clickedId] = "dim"] ELSE @]
    IN  IF Len(pushed.metatronClicks) = patternLength - 1
        THEN [pushed EXCEPT
                !.showMetatron = TRUE,
                !.metatronVisible = IF self.metatronCube THEN @ ELSE FALSE,
                !.metatronCube = TRUE,
                !.timers = Append(@, currentTime + revealDelay)]
        ELSE pushed

\* The accepted branch of handleClick: push the id and dim its circle; at
\* thirteen clicks set showMetatron, create the cube once and schedule the
\* reveal.
acceptClick(self, clickedId, currentTime) ==
    LET pushed == [self EXCEPT
                     !.metatronClicks = Append(@, clickedId),
                     !.color = IF clickedId \in CircleIds
                               THEN [@ EXCEPT ![clickedId] = "dim"] ELSE @]
    IN  IF Len(pushed.metatronClicks) = patternLength
        THEN [pushed EXCEPT
                !.showMetatron = TRUE,
                !.metatronVisible = IF self.metatronCube THEN @ ELSE FALSE,
                !.metatronCube = TRUE,
                !.timers = Append(@, currentTime + revealDelay)]
        ELSE pushed

\* handleClick comparing with the id one place further in the order.
handleClickOffByOne(self, target, currentTime) ==
    IF self.showMetatron
    THEN [ obj |-> self, ret |-> FALSE ]
    ELSE IF target.kind # "node"
    THEN [ obj |-> self, ret |-> FALSE ]
    ELSE IF target.id = expectedAt(Len(self.metatronClicks) + 1)
    THEN [ obj |-> acceptClick(self, target.id, currentTime), ret |-> TRUE ]
    ELSE [ obj |-> reset(self), ret |-> FALSE ]

\* handleClick without the showMetatron test at its head.
handleClickNoGuard(self, target, currentTime) ==
    IF target.kind # "node"
    THEN [ obj |-> self, ret |-> FALSE ]
    ELSE IF target.id = expectedAt(Len(self.metatronClicks))
    THEN [ obj |-> acceptClick(self, target.id, currentTime), ret |-> TRUE ]
    ELSE [ obj |-> reset(self), ret |-> FALSE ]

\* handleClick(raycaster, isMobile): the object after the call and the value
\* returned.
handleClick(self, target, currentTime) ==
    IF self.showMetatron
    THEN [ obj |-> self, ret |-> FALSE ]
    ELSE IF target.kind # "node"
    THEN [ obj |-> self, ret |-> FALSE ]
    ELSE IF target.id = expectedAt(Len(self.metatronClicks))
    THEN [ obj |-> acceptClick(self, target.id, currentTime), ret |-> TRUE ]
    ELSE [ obj |-> reset(self), ret |-> FALSE ]

\* show() and hide() of FlowerOfLife.
showFlowerObject(self) ==
    reset([self EXCEPT !.flowerGroupVisible = TRUE])

hideFlowerObject(self) ==
    [self EXCEPT !.flowerGroupVisible = FALSE,
                 !.metatronVisible = FALSE,
                 !.showMetatron = FALSE]

\* The callback given to setTimeout by the completed pattern; i is the place
\* of the timeout in the host's queue.
revealCallback(self, i) ==
    [self EXCEPT !.metatronVisible = TRUE,
                 !.flowerGroupVisible = FALSE,
                 !.timers = SubSeq(@, 1, i - 1) \o SubSeq(@, i + 1, Len(@))]

\* The object after new FlowerOfLife(scene) and create().
FlowerConstructed ==
    [ metatronClicks |-> << >>, showMetatron |-> FALSE,
      color |-> [i \in CircleIds |-> "white"],
      flowerGroupVisible |-> FALSE,
      metatronCube |-> FALSE, metatronVisible |-> FALSE,
      timers |-> << >> ]

IsPrefix(s, t) == Len(s) <= Len(t) /\ s = SubSeq(t, 1, Len(s))

\* A call of handleClick on the object `flower` with the clock at `now`.  The
\* history entry notes the object hit, whether its id was the one expected
\* (match), the progress before and after, and what the call did.
HandleClickCall(target) ==
    LET r == handleClick(flower, target, now) IN
    /\ Len(r.obj.timers) <= MaxRevealTimers
    /\ flower' = r.obj
    /\ flowerLog' = << [ kind |-> target.kind,
                         foreign |-> (target.id \notin CircleIds),
                         match |-> (target.id = expectedAt(Len(flower.metatronClicks))),
                         before |-> Len(flower.metatronClicks),
                         after |-> Len(r.obj.metatronClicks),
                         pushed |-> (r.obj.metatronClicks
                                       = Append(flower.metatronClicks, target.id)),
                         inOrder |-> IsPrefix(flower.metatronClicks, FRUIT_OF_LIFE_ORDER),
                         metaBefore |-> flower.showMetatron,
                         meta |-> r.obj.showMetatron,
                         white |-> (\A i \in CircleIds : r.obj.color[i] = "white"),
                         same |-> (r.obj = flower),
                         ret |-> r.ret ] >>

HandleClick ==
    \E target \in ClickTargets :
        /\ HandleClickCall(target)
        /\ UNCHANGED <<now, tri, triLog, storeVars, saturnVars, sceneVars>>

FlowerReset ==
    /\ flower' = reset(flower)
    /\ UNCHANGED <<flowerLog, triVars, storeVars, saturnVars, sceneVars>>

FlowerShow ==
    /\ flower' = showFlowerObject(flower)
    /\ UNCHANGED <<flowerLog, triVars, storeVars, saturnVars, sceneVars>>

FlowerHide ==
    /\ flower' = hideFlowerObject(flower)
    /\ UNCHANGED <<flowerLog, triVars, storeVars, saturnVars, sceneVars>>

RevealTimeoutFires ==
    \E i \in 1..Len(flower.timers) :
        /\ now >= flower.timers[i]
        /\ flower' = revealCallback(flower, i)
        /\ UNCHANGED <<flowerLog, triVars, storeVars, saturnVars, sceneVars>>

\* Time passes; a timeout that is due runs before the clock moves on.
FlowerTick ==
    /\ now + TickMs <= MaxFlowerTime
    /\ \A i \in 1..Len(flower.timers) : now < flower.timers[i]
    /\ now' = now + TickMs
    /\ UNCHANGED <<tri, triLog, flowerVars, storeVars, saturnVars, sceneVars>>

FlowerInit ==
    /\ flower = FlowerConstructed
    /\ flowerLog = << >>

FlowerNext ==
    \/ HandleClick
    \/ FlowerReset
    \/ FlowerShow
    \/ FlowerHide
    \/ RevealTimeoutFires
    \/ FlowerTick

(***************************************************************************)
(* The component: what it keeps beside the store and the objects.          *)
(***************************************************************************)

\* window.innerWidth and window.innerHeight of the session, halved.
halfWidth == 960
halfHeight == 540

\* hexagonStrength > 0.995, in thousandths.
fullReveal == 995
\* yellowEdgeDuration >= 2000 (ms) and, in the loop over the edges, >= 2.0 (s).
unlockDelay == 2000
\* cubeEdges.forEach: the cube has twelve edges.
cubeEdgeCount == 12

\* handlePointerMove: x = (clientX / innerWidth) * 2 - 1 and
\* y = -(clientY / innerHeight) * 2 + 1.  mouseX is kept in units of
\* 1/halfWidth and mouseY in units of 1/halfHeight, so that the values the
\* pointer can produce are whole numbers.
normalizedX(clientX) == clientX - halfWidth
normalizedY(clientY) == halfHeight - clientY

\* The places of the pointer the model draws: the centre of the window, a
\* place at which the cube shows its corner to the camera, and a place close
\* to that.
PointerPlaces ==
    { [clientX |-> 960, clientY |-> 540],
      [clientX |-> 40, clientY |-> 712],
      [clientX |-> 33, clientY |-> 388] }

\* Math.pow(maxAlignment, 100) in thousandths, rounded down, of the cube turned
\* by rotation.x = mouseY * PI and rotation.y = mouseX * 2 PI and seen from the
\* camera at (10 PHI^2, 10 PHI, 10 PHI^2) looking at the cube at (0, 15, 0):
\* 0.99998 and 0.96271 at the two places near the corner, below 0.001 at the
\* centre.
strengthAt(mouseX, mouseY) ==
    CASE mouseX = -920 /\ mouseY = -172 -> 999
      [] mouseX = -927 /\ mouseY = 152 -> 962
      [] OTHER -> 0

(***************************************************************************)
(* The strength in exact arithmetic.  A rotation is given by three angles   *)
(* whose cosine and sine are rational (multiples of 1/5), a corner          *)
(* direction by its signs, in units of 1/sqrt(3); every product below is a  *)
(* whole number.                                                           *)
(***************************************************************************)

\* Cosines and sines are kept in fifths.
angleScale == 5

\* The angles drawn: 0, 90, 180 and 270 degrees, and the angles of the
\* 3-4-5 triangle in two quadrants.
Angles ==
    { [cos |-> 5, sin |-> 0], [cos |-> 0, sin |-> 5],
      [cos |-> -5, sin |-> 0], [cos |-> 0, sin |-> -5],
      [cos |-> 3, sin |-> 4], [cos |-> 4, sin |-> 3],
      [cos |-> -4, sin |-> 3], [cos |-> 3, sin |-> -4] }

\* localCorners: the 8 corner directions of the cube, each normalized.
localCorners ==
    << <<1, 1, 1>>, <<1, 1, -1>>, <<1, -1, 1>>, <<1, -1, -1>>,
       <<-1, 1, 1>>, <<-1, 1, -1>>, <<-1, -1, 1>>, <<-1, -1, -1>> >>

\* The corners the view direction is taken from.
cornerCount == 8

\* Vector3.applyEuler(euler), order 'XYZ': the vector is turned about z, then
\* about y, then about x.  The result is in units of 1/angleScale^3.
applyEuler(v, euler) ==
    LET z == euler[3]
        y == euler[2]
        x == euler[1]
        v1 == << v[1] * z.cos - v[2] * z.sin,
                 v[1] * z.sin + v[2] * z.cos,
                 v[3] * angleScale >>
        v2 == << v1[1] * y.cos + v1[3] * y.sin,
                 v1[2] * angleScale,
                 v1[3] * y.cos - v1[1] * y.sin >>
    IN  << v2[1] * angleScale,
           v2[2] * x.cos - v2[3] * x.sin,
           v2[2] * x.sin + v2[3] * x.cos >>

\* Vector3.dot
dot(a, b) == a[1] * b[1] + a[2] * b[2] + a[3] * b[3]

\* Math.abs
abs(n) == IF n < 0 THEN -n ELSE n

\* The dot product of two unit vectors that coincide, in the units of two
\* vectors turned by applyEuler: 3 (the corners' sqrt(3), twice) times
\* angleScale^6.
unitDot == 3 * angleScale * angleScale * angleScale
             * angleScale * angleScale * angleScale

\* The smallest |viewDir . corner| instead of the largest.
minAlignment(viewDir, rotation) ==
    LET alignment(i) == abs(dot(viewDir, applyEuler(localCorners[i], rotation)))
    IN  CHOOSE m \in {alignment(i) : i \in DOMAIN localCorners} :
            \A i \in DOMAIN localCorners : m <= alignment(i)

\* maxAlignment: the largest |viewDir . corner| over the corners turned by the
\* cube's rotation, in units of 1/unitDot.
maxAlignment(viewDir, rotation) ==
    LET alignment(i) == abs(dot(viewDir, applyEuler(localCorners[i], rotation)))
    IN  CHOOSE m \in {alignment(i) : i \in DOMAIN localCorners} :
            \A i \in DOMAIN localCorners : alignment(i) <= m

\* Math.pow(base, exponent) in ten-thousandths, by squaring, each product
\* rounded down.
RECURSIVE pow(_, _)
pow(base, exponent) ==
    IF exponent = 0 THEN 10000
    ELSE IF exponent % 2 = 0
    THEN LET half == pow(base, exponent \div 2)
         IN  (half * half) \div 10000
    ELSE (pow(base, exponent - 1) * base) \div 10000

\* Math.pow(maxAlignment, 100), in thousandths, and 0 under auto-rotation.
computeRevealStrength(viewDir, rotation, autoRotate) ==
    IF autoRotate THEN 0
    ELSE pow((maxAlignment(viewDir, rotation) * 10000) \div unitDot, 100) \div 10

\* The cube as constructed, seen along its corner (1, 1, 1), strength not yet
\* computed (-1).  The view direction of a pose is the corner turned as the
\* cube is, but about x by viewAngle: it is R(corner) exactly when viewAngle
\* is the cube's own angle about x.
poseAtRest ==
    [ rotation |-> << [cos |-> 5, sin |-> 0], [cos |-> 5, sin |-> 0],
                      [cos |-> 5, sin |-> 0] >>,
      corner |-> 1, viewAngle |-> [cos |-> 5, sin |-> 0],
      autoRotate |-> TRUE, strength |-> -1 ]

viewDirection(pose) ==
    applyEuler(localCorners[pose.corner],
               << pose.viewAngle, pose.rotation[2], pose.rotation[3] >>)

\* hexagonStrength of a frame in which the cube or Saturn is shown:
\* maxAlignment stays 0 while Saturn is shown, and auto-rotation forces 0.
hexagonStrength(s) ==
    IF s.autoRotate \/ s.showSaturn THEN 0 ELSE strengthAt(s.mouseX, s.mouseY)

\* updateCubeAppearance(hexagonStrength) at Date.now() = currentTime: the
\* component after the call and the number of unlockCubeSecret actions it
\* dispatched.  Opacities and edge colours are output only.
updateCubeAppearance(c, s, strength, currentTime) ==
    LET started == IF s.cubeSecretUnlocked /\ c.yellowEdgeStartTime = 0
                   THEN currentTime ELSE c.yellowEdgeStartTime
        duration == IF started > 0 THEN currentTime - started ELSE 0
        atTop == strength > fullReveal /\ duration >= unlockDelay
        afterTop == IF strength > fullReveal THEN started ELSE 0
        inLoop == IF strength > fullReveal /\ afterTop = 0
                  THEN currentTime ELSE afterTop
        perEdge == strength > fullReveal /\ currentTime - inLoop >= unlockDelay
    IN  [ comp |-> [c EXCEPT !.yellowEdgeStartTime = inLoop],
          unlocks |-> (IF atTop THEN 1 ELSE 0)
                        + (IF perEdge THEN cubeEdgeCount ELSE 0) ]

\* currentTime.getSeconds() of new Date() at the instant t.
getSeconds(t) == (t \div 1000) % 60

\* canInteractWithCube: derived(sceneStore, $store => !$store.showTriangle)
canInteractWithCube(s) == ~s.showTriangle

\* The reactive visibility block, run after every update of the store: each
\* object is shown or hidden to follow the store.  (SaturnObject.show and hide
\* only set visibility, which nothing reads back.)
syncTriangle(s, t) ==
    IF s.showTriangle /\ ~t.visible THEN show(t)
    ELSE IF ~s.showTriangle /\ t.visible THEN hide(t)
    ELSE t

syncFlower(s, f) ==
    IF s.showFlower /\ ~f.flowerGroupVisible THEN showFlowerObject(f)
    ELSE IF ~s.showFlower /\ f.flowerGroupVisible THEN hideFlowerObject(f)
    ELSE f

\* The store takes the actions `as` in turn, and the visibility block runs.
\* t and f are the triangle and the flower as the handler left them.
StoreUpdated(as, t, f, entries) ==
    LET s2 == IF Len(as) = 1 THEN reducer(state, as[1])
              ELSE reducer(reducer(state, as[1]), as[2])
    IN  /\ state' = s2
        /\ dispatched' = as[Len(as)].type
        /\ tri' = syncTriangle(s2, t)
        /\ triLog' = IF s2.showTriangle /\ ~t.visible THEN << >> ELSE entries
        /\ flower' = syncFlower(s2, f)

CompInit ==
    /\ comp = [ magicMode |-> FALSE, yellowEdgeStartTime |-> 0,
                currentSeconds |-> getSeconds(TickMs), showMetatron |-> FALSE ]
    /\ frameLog = << >>
    /\ keyLog = << >>
    /\ reveal = poseAtRest

\* The history entry of a frame: the strength it computed, whether the store
\* had autoRotate on, how many unlockCubeSecret actions it dispatched, and the
\* instant since which every frame has computed a strength above 0.995 (0 when
\* this frame did not), for how long that is (held), and yellowEdgeStartTime as
\* the frame left it (timer).  A frame of the triangle or the flower computes its
\* strength from the pose the cube was left in, which the model does not keep:
\* such a frame is noted as not known and carries the instant over.
FrameEntry(strength, unlocks, timer) ==
    LET known == state.showCube \/ state.showSaturn
        before == IF frameLog = << >> THEN 0 ELSE frameLog[1].since
        since == IF ~known THEN before
                 ELSE IF strength > fullReveal
                 THEN (IF before # 0 THEN before ELSE now)
                 ELSE 0
    IN  [ known |-> known,
          strength |-> IF known THEN strength ELSE 0,
          auto |-> state.autoRotate,
          unlocks |-> unlocks,
          since |-> since,
          held |-> IF since # 0 THEN now - since ELSE 0,
          timer |-> timer ]

\* animate(): one frame at Date.now() = now.
Animate ==
    LET breathed == IF state.showTriangle THEN updateBreath(tri, now) ELSE tri
        strength == hexagonStrength(state)
        r == IF state.showCube
             THEN updateCubeAppearance(comp, state, strength, now)
             ELSE [ comp |-> comp, unlocks |-> 0 ]
    IN  /\ comp' = [r.comp EXCEPT !.currentSeconds = getSeconds(now)]
        /\ frameLog' = << FrameEntry(strength, r.unlocks, r.comp.yellowEdgeStartTime) >>
        /\ IF r.unlocks > 0
           THEN StoreUpdated(<< [type |-> "UNLOCK_CUBE_SECRET"] >>,
                             breathed, flower, triLog)
           ELSE /\ tri' = breathed
                /\ UNCHANGED <<state, dispatched, triLog, flower>>
        /\ UNCHANGED <<now, flowerLog, keyLog, reveal, saturnVars>>

\* handlePointerMove: nothing in the flower tableau, otherwise the pointer's
\* place goes to the store.
PointerMove ==
    \E p \in PointerPlaces :
        /\ ~state.showFlower
        /\ StoreUpdated(<< [type |-> "UPDATE_MOUSE_POSITION",
                            payload |-> [x |-> normalizedX(p.clientX),
                                         y |-> normalizedY(p.clientY)]] >>,
                        tri, flower, triLog)
        /\ UNCHANGED <<now, flowerLog, sceneVars, saturnVars>>

\* handleFlowerClick(event), the ray of the event hitting `target`.
handleFlowerClick(target) ==
    /\ state.showFlower
    /\ HandleClickCall(target)
    /\ comp' = IF handleClick(flower, target, now).ret
               THEN [comp EXCEPT !.showMetatron = TRUE] ELSE comp
    /\ UNCHANGED <<now, tri, triLog, frameLog, keyLog, reveal, storeVars,
                   saturnVars>>

\* handlePointerDown on the canvas, flower tableau: handleFlowerClick.
PointerDownFlower == \E target \in ClickTargets : handleFlowerClick(target)

\* handleTriangleBreathClick without the showFlower that follows the unlock.
PointerDownTriangleStays ==
    LET r == checkBreathClick(tri, now)
        entries == Recent(Append(triLog, BreathClickEntry(r)))
    IN  /\ ~state.showFlower /\ state.showTriangle
        /\ IF r.ret
           THEN StoreUpdated(<< [type |-> "UNLOCK_TRINITY_SECRET"] >>,
                             r.obj, flower, entries)
           ELSE /\ tri' = r.obj
                /\ triLog' = entries
                /\ UNCHANGED <<state, dispatched, flower>>
        /\ UNCHANGED <<now, flowerLog, sceneVars, saturnVars>>

\* handlePointerDown, triangle tableau: handleTriangleBreathClick.
PointerDownTriangle ==
    LET r == checkBreathClick(tri, now)
        entries == Recent(Append(triLog, BreathClickEntry(r)))
    IN  /\ ~state.showFlower /\ state.showTriangle
        /\ IF r.ret
           THEN StoreUpdated(<< [type |-> "UNLOCK_TRINITY_SECRET"],
                                [type |-> "SHOW_FLOWER"] >>,
                             r.obj, flower, entries)
           ELSE /\ tri' = r.obj
                /\ triLog' = entries
                /\ UNCHANGED <<state, dispatched, flower>>
        /\ UNCHANGED <<now, flowerLog, sceneVars, saturnVars>>

\* The Saturn branch taken whatever the tableau.
PointerDownSaturnAnywhere ==
    LET seconds == comp.currentSeconds
        r == checkTimingSecret(saturn, seconds)
    IN  /\ r.obj.saturnCounter <= MaxSaturnCounter
        /\ saturn' = r.obj
        /\ saturnSeconds' = seconds
        /\ saturnLog' = Recent(Append(saturnLog, TimingCallEntry(seconds, r)))
        /\ IF r.ret
           THEN StoreUpdated(<< [type |-> "UNLOCK_SATURN_SECRET"] >>,
                             tri, flower, triLog)
           ELSE UNCHANGED <<state, dispatched, tri, triLog, flower>>
        /\ UNCHANGED <<now, flowerLog, sceneVars>>

\* handlePointerDown, Saturn tableau: handleSaturnTimingClick with the
\* currentTime of the latest frame.
PointerDownSaturn ==
    LET seconds == comp.currentSeconds
        r == checkTimingSecret(saturn, seconds)
    IN  /\ ~state.showFlower /\ ~state.showTriangle /\ state.showSaturn
        /\ r.obj.saturnCounter <= MaxSaturnCounter
        /\ saturn' = r.obj
        /\ saturnSeconds' = seconds
        /\ saturnLog' = Recent(Append(saturnLog, TimingCallEntry(seconds, r)))
        /\ IF r.ret
           THEN StoreUpdated(<< [type |-> "UNLOCK_SATURN_SECRET"] >>,
                             tri, flower, triLog)
           ELSE UNCHANGED <<state, dispatched, tri, triLog, flower>>
        /\ UNCHANGED <<now, flowerLog, sceneVars>>

\* handlePointerDown, otherwise: the cube toggles auto-rotation.
PointerDownCube ==
    /\ ~state.showFlower /\ ~state.showTriangle /\ ~state.showSaturn
    /\ canInteractWithCube(state)
    /\ StoreUpdated(<< [type |-> "TOGGLE_AUTO_ROTATE"] >>, tri, flower, triLog)
    /\ UNCHANGED <<now, flowerLog, sceneVars, saturnVars>>

\* handleKeyPress(event): the store after the handler has run on a key event.
handleKeyPress(s, key) ==
    IF ~canInteractWithCube(s) THEN s
    ELSE IF key = " " THEN reducer(s, [type |-> "TOGGLE_AUTO_ROTATE"])
    ELSE IF key = "Escape"
    THEN reducer(s, [type |-> "SET_AUTO_ROTATE", payload |-> TRUE])
    ELSE s

\* One stroke of a key.  handleKeyPress is registered on window for 'keydown'
\* and for 'keypress': the host delivers `events` events for the stroke and
\* the handler runs on each.
KeyStroke(key, events) ==
    LET once == handleKeyPress(state, key)
        s2 == IF events = 2 THEN handleKeyPress(once, key) ELSE once
        acted == canInteractWithCube(state) /\ key \in {" ", "Escape"}
    IN  /\ state' = s2
        /\ dispatched' = IF acted THEN s2.lastAction ELSE dispatched
        /\ tri' = IF acted THEN syncTriangle(s2, tri) ELSE tri
        /\ flower' = IF acted THEN syncFlower(s2, flower) ELSE flower
        /\ keyLog' = << [ key |-> key, events |-> events,
                          cube |-> state.showCube,
                          before |-> state.autoRotate,
                          after |-> s2.autoRotate ] >>
        /\ UNCHANGED <<now, triLog, flowerLog, comp, frameLog, reveal, saturnVars>>

\* Space gives a character: its keydown is followed by a keypress.
PressSpace == KeyStroke(" ", 2)

\* Escape gives no character: keydown, and in some hosts a keypress as well.
PressEscape == \E events \in {1, 2} : KeyStroke("Escape", events)

\* The Saturn button present from the start.
GoToSaturnAlwaysPresent ==
    /\ StoreUpdated(<< [type |-> "SHOW_SATURN"] >>, tri, flower, triLog)
    /\ UNCHANGED <<now, flowerLog, sceneVars, saturnVars>>

\* The buttons of SecretButtons, each present under its own condition.
GoToSaturn ==
    /\ state.cubeSecretUnlocked \/ comp.magicMode
    /\ StoreUpdated(<< [type |-> "SHOW_SATURN"] >>, tri, flower, triLog)
    /\ UNCHANGED <<now, flowerLog, sceneVars, saturnVars>>

ShowTriangleButton ==
    /\ state.saturnSecretUnlocked \/ comp.magicMode
    /\ StoreUpdated(<< [type |-> "SHOW_TRIANGLE"] >>, tri, flower, triLog)
    /\ UNCHANGED <<now, flowerLog, sceneVars, saturnVars>>

ShowFlowerButton ==
    /\ state.trinitySecretUnlocked \/ comp.magicMode
    /\ StoreUpdated(<< [type |-> "SHOW_FLOWER"] >>, tri, flower, triLog)
    /\ UNCHANGED <<now, flowerLog, sceneVars, saturnVars>>

ShowCubeButton ==
    /\ comp.magicMode
    /\ StoreUpdated(<< [type |-> "SHOW_CUBE"] >>, tri, flower, triLog)
    /\ UNCHANGED <<now, flowerLog, sceneVars, saturnVars>>

\* Time passes in the component, up to the horizon of the run; a timeout that
\* is due runs before the clock moves on.
SceneTick(horizon) ==
    /\ now + TickMs <= horizon
    /\ \A h \in tri.timers : now < h
    /\ \A i \in 1..Len(flower.timers) : now < flower.timers[i]
    /\ now' = now + TickMs
    /\ UNCHANGED <<tri, triLog, flowerVars, storeVars, saturnVars, sceneVars>>

\* The horizon of the runs about the cube.
MaxCubeTime == 2400

CubeTick == SceneTick(MaxCubeTime)

\* The horizon of the run through the whole progression, and the time the
\* visitor takes at most to turn the cube.
MaxJourneyTime == 41000
MaxAlignTime == 1000

\* Frames follow each other faster than the clock of the model moves: the
\* latest frame has seen the present second and the present breath.
JourneyTick ==
    /\ comp.currentSeconds = getSeconds(now)
    /\ state.showTriangle => tri = updateBreath(tri, now)
    /\ SceneTick(MaxJourneyTime)

\* The visitor who goes through the progression, without the magic word: the
\* handlers are the component's, the visitor only chooses when and where to
\* act.  In the cube tableau they move the pointer and click the cube until
\* the secret is unlocked.
AlignCube ==
    /\ state.showCube /\ ~state.cubeSecretUnlocked
    /\ now <= MaxAlignTime
    /\ PointerMove \/ PointerDownCube

EnterSaturn == state.showCube /\ GoToSaturn

\* A correctly timed clock attempt: the seconds of the latest frame hold a 6
\* and are not those of the attempt before.
TimedSaturnClick ==
    /\ ~state.saturnSecretUnlocked
    /\ containsSix(comp.currentSeconds)
    /\ saturnLog # << >> => comp.currentSeconds # saturnSeconds
    /\ PointerDownSaturn

EnterTriangle == state.showSaturn /\ ShowTriangleButton

\* A correctly timed breath click: in the peak window of a breath that has not
\* been clicked yet, a frame having started the breath.
PeakClick ==
    /\ tri.breathStartTime # 0
    /\ isPeakMoment(tri, now)
    /\ triLog # << >> => triLog[Len(triLog)].cycle # currentCycle(tri, now)
    /\ PointerDownTriangle

\* A correctly ordered flower click: on the node that is next in the order.
OrderedFlowerClick ==
    /\ Len(flower.metatronClicks) < patternLength
    /\ handleFlowerClick([kind |-> "node",
                          id |-> expectedAt(Len(flower.metatronClicks))])

JourneyNext ==
    \/ Animate
    \/ AlignCube
    \/ EnterSaturn
    \/ TimedSaturnClick
    \/ EnterTriangle
    \/ PeakClick
    \/ OrderedFlowerClick
    \/ GlowTimeoutFires
    \/ RevealTimeoutFires
    \/ JourneyTick

\* The same visitor, who also uses the buttons to Saturn and to the triangle
\* from any tableau in which they are present, so goes back as well as
\* forward.
ChainNext ==
    \/ Animate
    \/ AlignCube
    \/ GoToSaturn
    \/ TimedSaturnClick
    \/ ShowTriangleButton
    \/ PeakClick
    \/ OrderedFlowerClick
    \/ GlowTimeoutFires
    \/ RevealTimeoutFires
    \/ JourneyTick

\* The cube tableau and Saturn's, with and without the magic word: frames are
\* drawn while the user moves the pointer, clicks the cube and uses the buttons
\* to Saturn and back.
CubeNext ==
    \/ Animate
    \/ PointerMove
    \/ PointerDownCube
    \/ GoToSaturn
    \/ ShowCubeButton
    \/ CubeTick

\* The same tableaux under the keyboard.
KeysNext ==
    \/ PressSpace
    \/ PressEscape
    \/ PointerMove
    \/ PointerDownCube
    \/ GoToSaturn
    \/ ShowCubeButton

\* The horizon of the runs in the flower tableau of the component.
MaxBloomTime == 800

BloomTick == SceneTick(MaxBloomTime)

\* A click on the canvas in the flower tableau that hits a node: the one that
\* is next in the order, or circle 0.
BloomClick ==
    \E target \in { t \in ClickTargets :
                      /\ t.kind = "node"
                      /\ t.id \in {0, expectedAt(Len(flower.metatronClicks))} } :
        handleFlowerClick(target)

\* The flower tableau in the component: clicks on the canvas, the keyboard,
\* frames, the buttons that lead to the flower and away from it, and the
\* reveal timeout.
BloomNext ==
    \/ ShowFlowerButton
    \/ GoToSaturn
    \/ BloomClick
    \/ PressSpace
    \/ PressEscape
    \/ Animate
    \/ RevealTimeoutFires
    \/ BloomTick

\* handlePointerDown(event) on the canvas: one branch, by the tableau.
PointerDown ==
    \/ PointerDownFlower
    \/ PointerDownTriangle
    \/ PointerDownSaturn
    \/ PointerDownCube

\* The horizon of the runs through all four tableaux.
MaxRoutingTime == 13600

\* Time passes once the latest frame has seen the present second and breath.
RoutingTick ==
    /\ comp.currentSeconds = getSeconds(now)
    /\ state.showTriangle => tri = updateBreath(tri, now)
    /\ SceneTick(MaxRoutingTime)

\* A click on the canvas in the flower tableau that hits circle 0.
FirstCircleClick == handleFlowerClick([kind |-> "node", id |-> 0])

\* A visitor with the magic word who clicks in all four tableaux: the cube at
\* any moment, Saturn and the triangle at the right moments, circle 0 of the
\* flower; they go from the cube to Saturn and use the buttons to the
\* triangle and the flower from any tableau.
RoutingNext ==
    \/ EnterSaturn
    \/ ShowTriangleButton
    \/ ShowFlowerButton
    \/ PointerDownCube
    \/ TimedSaturnClick
    \/ PeakClick
    \/ FirstCircleClick
    \/ Animate
    \/ GlowTimeoutFires
    \/ RoutingTick

\* The horizon of the runs in the triangle tableau of the component.
MaxAnchorTime == 2000

AnchorTick == SceneTick(MaxAnchorTime)

\* The triangle tableau in the component: the buttons that lead to it and
\* away from it, frames, clicks on the canvas and the glow timeout, in any
\* order.
AnchorNext ==
    \/ ShowTriangleButton
    \/ ShowCubeButton
    \/ Animate
    \/ PointerDownTriangle
    \/ GlowTimeoutFires
    \/ AnchorTick

\* A frame computes the strength of the pose.
ComputeReveal ==
    /\ reveal.strength = -1
    /\ reveal' = [reveal EXCEPT !.strength =
                     computeRevealStrength(viewDirection(reveal),
                                           reveal.rotation, reveal.autoRotate)]
    /\ UNCHANGED <<comp, frameLog, keyLog, triVars, flowerVars, storeVars,
                   saturnVars>>

\* Every rotation of the cube by the angles drawn, every corner, the view
\* along the turned corner or off it, in manual mode and under auto-rotation.
RevealInit ==
    /\ StoreInit /\ SaturnInit /\ TriangleInit /\ FlowerInit
    /\ comp = [ magicMode |-> FALSE, yellowEdgeStartTime |-> 0,
                currentSeconds |-> getSeconds(TickMs), showMetatron |-> FALSE ]
    /\ frameLog = << >>
    /\ keyLog = << >>
    /\ reveal \in [ rotation : Angles \X Angles \X Angles,
                    corner : 1..cornerCount,
                    viewAngle : Angles,
                    autoRotate : BOOLEAN,
                    strength : {-1} ]

CubeInit ==
    /\ StoreInit /\ SaturnInit /\ TriangleInit /\ FlowerInit
    /\ \E magic \in BOOLEAN :
          comp = [ magicMode |-> magic, yellowEdgeStartTime |-> 0,
                   currentSeconds |-> getSeconds(TickMs), showMetatron |-> FALSE ]
    /\ frameLog = << >>
    /\ keyLog = << >>
    /\ reveal = poseAtRest

Init == StoreInit /\ SaturnInit /\ TriangleInit /\ FlowerInit /\ CompInit

SpecStore == Init /\ [][StoreNext]_vars

SpecSaturn == Init /\ [][SaturnNext]_vars

SpecTriangle == Init /\ [][TriangleNext]_vars

BreathInit == StoreInit /\ SaturnInit /\ ShownInit /\ FlowerInit /\ CompInit

SpecBreath == BreathInit /\ [][ShownNext]_vars

SpecFlower == Init /\ [][FlowerNext]_vars

SpecCube == CubeInit /\ [][CubeNext]_vars

SpecKeys == CubeInit /\ [][KeysNext]_vars

SpecJourney == Init /\ [][JourneyNext]_vars

SpecReveal == RevealInit /\ [][ComputeReveal]_vars

SpecBloom == CubeInit /\ [][BloomNext]_vars

SpecAnchor == CubeInit /\ [][AnchorNext]_vars

SpecChain == Init /\ [][ChainNext]_vars

SpecRouting == CubeInit /\ [][RoutingNext]_vars

(***************************************************************************)
(* Properties of the scene store.                                          *)
(***************************************************************************)

TableauFlags == {"showCube", "showSaturn", "showTriangle", "showFlower"}
SecretFlags == {"cubeSecretUnlocked", "saturnSecretUnlocked", "trinitySecretUnlocked"}

\* C1: in every state reachable by dispatching actions (RESET_STATE and unknown
\* action types included) exactly one of showCube, showSaturn, showTriangle and
\* showFlower is true; before any dispatch the cube is shown and autoRotate is on.
C1_ExactlyOneTableau ==
    /\ Cardinality({f \in TableauFlags : state[f]}) = 1
    /\ dispatched = "none" => state.showCube /\ state.autoRotate

\* A tableau other than the cube is shown, the store has been reset at least
\* once before (lastAction is cleared only by a reset) and the latest dispatch
\* was of an unknown action type.
C1_Witness ==
    /\ state.showFlower
    /\ dispatched = "NOT_AN_ACTION"
    /\ state.lastAction = "SHOW_FLOWER"

\* C2: each unlock flag that is true stays true across every dispatch other
\* than RESET_STATE, and RESET_STATE sets it back to false.
C2_UnlockMonotonic ==
    [][ \A f \in SecretFlags :
          /\ (state[f] /\ dispatched' # "RESET_STATE") => state'[f]
          /\ dispatched' = "RESET_STATE" => ~state'[f] ]_vars

\* All three secrets are unlocked and a navigation has been dispatched since.
C2_Witness ==
    /\ \A f \in SecretFlags : state[f]
    /\ dispatched = "SHOW_CUBE"
    /\ ~state.autoRotate

(***************************************************************************)
(* Properties of the Saturn timing secret.                                 *)
(***************************************************************************)

LastCall == saturnLog[Len(saturnLog)]

\* C3: starting from counter 0, three consecutive attempts whose seconds each
\* contain the digit 6 and each differ from the seconds of the attempt before
\* drive saturnCounter through 1, 2, 3; the first two return false, the third
\* returns true and sets saturnSecretUnlocked.
C3_ThreeSixesUnlock ==
    ( /\ Len(saturnLog) = 3
      /\ saturnLog[1].before = 0
      /\ \A i \in 1..3 : saturnLog[i].six /\ ~saturnLog[i].repeat )
    => /\ saturnLog[1].counter = 1 /\ ~saturnLog[1].ret
       /\ saturnLog[2].counter = 2 /\ ~saturnLog[2].ret
       /\ saturnLog[3].counter = 3 /\ saturnLog[3].ret
       /\ saturn.saturnCounter = 3
       /\ saturn.saturnSecretUnlocked

\* Three attempts on different six-bearing seconds, the last at second 26,
\* from a counter of 0 and a locked secret, the third unlocking.
C3_Witness ==
    /\ Len(saturnLog) = 3
    /\ saturnLog[1].before = 0
    /\ \A i \in 1..3 : saturnLog[i].six /\ ~saturnLog[i].repeat
    /\ saturnSeconds = 26
    /\ saturnLog[3].ret
    /\ ~saturnLog[2].unlocked

\* C4: an attempt whose seconds contain a 6 but equal the seconds recorded by
\* the attempt before (lastSixMoment) returns false and leaves saturnCounter,
\* lastSixMoment and saturnSecretUnlocked as they were.
C4_DuplicateSecondNoEffect ==
    ( /\ Len(saturnLog) >= 1
      /\ LastCall.six
      /\ LastCall.recorded )
    => /\ ~LastCall.ret
       /\ LastCall.same
       /\ LastCall.counter = LastCall.before
       /\ LastCall.unlocked = LastCall.unlockedBefore

\* A credited attempt followed by two more attempts on the same second, with
\* progress of 2 kept.
C4_Witness ==
    /\ Len(saturnLog) = 3
    /\ saturnLog[1].six
    /\ saturnLog[1].before = 1 /\ saturnLog[1].counter = 2
    /\ saturnLog[2].recorded /\ saturnLog[2].repeat
    /\ saturnLog[3].recorded /\ saturnLog[3].repeat
    /\ saturn.saturnCounter = 2
    /\ saturn.lastSixMoment = saturnSeconds

\* C5 as stated: a click that repeats the second of the click before resets
\* the counter to 0.
C5_DuplicateResetsCounter ==
    ( Len(saturnLog) >= 1 /\ LastCall.repeat )
    => saturn.saturnCounter = 0

\* C5, amended: a click that repeats the second of the click before leaves the
\* counter at 0 only when that second has no digit 6; on a second with a 6 the
\* counter keeps the value it had, which is at least 1.
C5_DuplicateKeepsCounter ==
    ( Len(saturnLog) >= 1 /\ LastCall.repeat )
    => IF LastCall.six
       THEN /\ LastCall.counter = LastCall.before
            /\ saturn.saturnCounter >= 1
            /\ ~LastCall.ret
       ELSE saturn.saturnCounter = 0

\* A second click on second 06 with the counter staying at 1.
C5_Witness ==
    /\ Len(saturnLog) = 2
    /\ saturnLog[1].six /\ saturnLog[1].before = 0
    /\ saturnLog[2].repeat
    /\ saturnSeconds = 6
    /\ saturn.saturnCounter = 1

\* C6: an attempt whose two-digit seconds have no digit 6 returns false, sets
\* saturnCounter to 0 whatever it was and records the seconds in lastSixMoment;
\* the counter is never negative.
C6_WrongSecondResets ==
    /\ saturn.saturnCounter >= 0
    /\ ( Len(saturnLog) >= 1 /\ ~LastCall.six )
       => /\ ~LastCall.ret
          /\ saturn.saturnCounter = 0
          /\ saturn.lastSixMoment = saturnSeconds
          /\ LastCall.unlocked = LastCall.unlockedBefore

\* Progress of 2 lost to an attempt on a second without a 6, then an attempt
\* at second 05.
C6_Witness ==
    /\ Len(saturnLog) = 3
    /\ saturnLog[1].counter = 2
    /\ ~saturnLog[2].six /\ saturnLog[2].before = 2 /\ saturnLog[2].counter = 0
    /\ ~saturnLog[3].six /\ saturnLog[3].before = 0
    /\ saturnSeconds = 5
    /\ saturn.saturnCounter = 0
    /\ saturn.lastSixMoment = 5

(***************************************************************************)
(* Properties of the triangle breath gate.                                 *)
(***************************************************************************)

LastClick == triLog[Len(triLog)]

\* Three clicks in a row, each in the peak window, in three different cycles
\* of one anchor.
ThreePeakClicks ==
    /\ Len(triLog) = 3
    /\ \A i \in 1..3 : triLog[i].peak /\ triLog[i].anchor = triLog[1].anchor
    /\ triLog[1].anchor # 0
    /\ triLog[1].cycle # triLog[2].cycle
    /\ triLog[2].cycle # triLog[3].cycle
    /\ triLog[1].cycle # triLog[3].cycle

TrinityOutcome ==
    /\ triLog[1].counter = 1 /\ ~triLog[1].ret
    /\ triLog[2].counter = 2 /\ ~triLog[2].ret
    /\ triLog[3].counter = 0 /\ triLog[3].ret

\* C7 as stated: with the anchor fixed, three clicks in the peak windows of
\* three different cycles, with no click in between, give breathCounter 1, 2, 0
\* and return false, false, true.
C7_ThreePeaksTrinity == ThreePeakClicks => TrinityOutcome

\* C7, amended: the same when breathCounter is 0 before the first of the three.
C7_ThreePeaksFromZero ==
    (ThreePeakClicks /\ triLog[1].before = 0) => TrinityOutcome

\* Clicks in the peak windows of cycles 0, 1 and 2 from a counter of 0.
C7_Witness ==
    /\ ThreePeakClicks
    /\ triLog[1].before = 0
    /\ triLog[1].cycle = 0 /\ triLog[2].cycle = 1 /\ triLog[3].cycle = 2
    /\ triLog[3].ret
    /\ tri.breathCounter = 0

\* C8 as stated: a click outside the peak window returns false, sets
\* breathCounter to 0 and lastClickCycle to -1, turns the glow off and cancels
\* any pending glow timer.
C8_MissResetsAndCancels ==
    ( Len(triLog) >= 1 /\ ~LastClick.peak )
    => /\ ~LastClick.ret
       /\ LastClick.counter = 0
       /\ LastClick.last = -1
       /\ ~LastClick.glow
       /\ ~LastClick.pending

\* C8, amended: the pending glow timer is cancelled when the glow was on; a
\* timer pending while the glow is already off is left pending.
C8_MissResets ==
    /\ tri.breathCounter >= 0
    /\ ( Len(triLog) >= 1 /\ ~LastClick.peak )
       => /\ ~LastClick.ret
          /\ LastClick.counter = 0
          /\ LastClick.last = -1
          /\ ~LastClick.glow
          /\ LastClick.glowBefore => ~LastClick.pending
          /\ ~LastClick.glowBefore => (LastClick.pending = LastClick.pendingBefore)

\* Progress of 2 and a lit glow lost to a click outside the window, followed
\* by a second click outside the window.
C8_Witness ==
    /\ Len(triLog) >= 2
    /\ ~LastClick.peak /\ LastClick.before = 0 /\ LastClick.counter = 0
    /\ ~triLog[Len(triLog) - 1].peak
    /\ triLog[Len(triLog) - 1].before = 2
    /\ triLog[Len(triLog) - 1].glowBefore
    /\ triLog[Len(triLog) - 1].pendingBefore
    /\ ~triLog[Len(triLog) - 1].pending
    /\ tri.breathCounter = 0

\* The latest click fell in the peak window of a cycle in which an earlier
\* click was credited without reaching trinity.
SameCycleAgain ==
    /\ Len(triLog) >= 2
    /\ LastClick.peak
    /\ \E i \in 1..(Len(triLog) - 1) :
          /\ triLog[i].peak
          /\ triLog[i].counter = triLog[i].before + 1
          /\ triLog[i].anchor = LastClick.anchor
          /\ triLog[i].cycle = LastClick.cycle

\* C9: a further click inside the peak window of a cycle already credited
\* returns false and leaves the object (breathCounter, lastClickCycle, the glow
\* and its timer) unchanged.
C9_SameCycleNoEffect ==
    SameCycleAgain => ~LastClick.ret /\ LastClick.same

\* A credited click and two more in the same window, at a later instant, with
\* the anchor set.
C9_Witness ==
    /\ Len(triLog) = 3
    /\ SameCycleAgain
    /\ triLog[1].before = 0 /\ triLog[1].counter = 1
    /\ triLog[2].peak /\ triLog[2].cycle = triLog[1].cycle
    /\ LastClick.anchor # 0
    /\ now - LastClick.anchor = 1600
    /\ tri.breathCounter = 1
    /\ tri.lastClickCycle = LastClick.cycle

\* C10 as stated: a click in the peak window of a cycle already credited
\* resets the counter to 0, deactivates the glow and reports failure.
C10_SameCycleResets ==
    SameCycleAgain
    => /\ ~LastClick.ret
       /\ LastClick.counter = 0
       /\ ~LastClick.glow

\* C10, amended: such a click reports failure and resets nothing: the counter
\* keeps its value, which is at least 1, and the glow stays as it was.
C10_SameCycleKeeps ==
    SameCycleAgain
    => /\ ~LastClick.ret
       /\ LastClick.counter = LastClick.before
       /\ LastClick.counter >= 1
       /\ LastClick.glow = LastClick.glowBefore
       /\ LastClick.last = LastClick.cycle

\* A second click in a credited window while the glow is still lit.
C10_Witness ==
    /\ SameCycleAgain
    /\ LastClick.glowBefore /\ LastClick.glow
    /\ LastClick.counter = 2
    /\ tri.triangleGlowActive

(***************************************************************************)
(* Properties of the flower's click gate.                                  *)
(***************************************************************************)

LastFlowerClick == flowerLog[Len(flowerLog)]

\* C11: from empty progress, each click on the node that is next in
\* [0,1,3,5,2,4,6,7,9,11,8,10,12] returns true and appends the id to
\* metatronClicks; showMetatron is false after each of the first twelve and
\* becomes true at the thirteenth.
C11_OrderedClicksAccepted ==
    ( /\ Len(flowerLog) = 1
      /\ LastFlowerClick.kind = "node"
      /\ ~LastFlowerClick.metaBefore
      /\ LastFlowerClick.inOrder
      /\ LastFlowerClick.match )
    => /\ LastFlowerClick.ret
       /\ LastFlowerClick.pushed
       /\ LastFlowerClick.after = LastFlowerClick.before + 1
       /\ LastFlowerClick.meta <=> (LastFlowerClick.after = 13)

\* The thirteenth click in order has just been accepted.
C11_Witness ==
    /\ Len(flowerLog) = 1
    /\ LastFlowerClick.kind = "node" /\ LastFlowerClick.match
    /\ LastFlowerClick.before = 12 /\ ~LastFlowerClick.metaBefore
    /\ LastFlowerClick.ret
    /\ flower.metatronClicks = FRUIT_OF_LIFE_ORDER
    /\ flower.showMetatron

\* C12: while the pattern is not complete, a click on a node whose id is not
\* the next one of the order (an id outside 0..12 included) returns false,
\* empties metatronClicks and leaves all thirteen circles white, at any
\* progress.
C12_WrongClickResets ==
    ( /\ Len(flowerLog) = 1
      /\ LastFlowerClick.kind = "node"
      /\ ~LastFlowerClick.metaBefore
      /\ ~LastFlowerClick.match )
    => /\ ~LastFlowerClick.ret
       /\ LastFlowerClick.after = 0
       /\ LastFlowerClick.white
       /\ ~LastFlowerClick.meta

\* Progress of twelve lost to a click on an object whose id is none of 0..12.
C12_Witness ==
    /\ Len(flowerLog) = 1
    /\ LastFlowerClick.kind = "node" /\ LastFlowerClick.foreign
    /\ LastFlowerClick.before = 12 /\ ~LastFlowerClick.metaBefore
    /\ ~LastFlowerClick.ret
    /\ flower.metatronClicks = << >>
    /\ \A i \in CircleIds : flower.color[i] = "white"

\* C13: while showMetatron is true, every handleClick call returns false and
\* leaves metatronClicks, showMetatron and the circle colours as they were,
\* whatever was clicked.
C13_CompletedIgnoresClicks ==
    ( Len(flowerLog) = 1 /\ LastFlowerClick.metaBefore )
    => /\ ~LastFlowerClick.ret
       /\ LastFlowerClick.same
       /\ LastFlowerClick.after = LastFlowerClick.before
       /\ LastFlowerClick.meta

\* A click on one of the thirteen nodes after completion, all circles dimmed.
C13_Witness ==
    /\ Len(flowerLog) = 1
    /\ LastFlowerClick.metaBefore
    /\ LastFlowerClick.kind = "node" /\ ~LastFlowerClick.foreign
    /\ LastFlowerClick.before = 13
    /\ flower.showMetatron
    /\ \A i \in CircleIds : flower.color[i] = "dim"

(***************************************************************************)
(* Properties of the cube's reveal and of the keyboard.                    *)
(***************************************************************************)

LastFrame == frameLog[Len(frameLog)]

\* C14: a frame dispatches unlockCubeSecret only when autoRotate is off and
\* every frame of the last 2.0 seconds computed a strength above 0.995; a frame
\* that computes a strength of 0.995 or less leaves the yellow-edge timer at 0.
C14_UnlockNeedsContinuousReveal ==
    ( Len(frameLog) = 1 /\ LastFrame.known )
    => /\ LastFrame.unlocks > 0
            => ~LastFrame.auto /\ LastFrame.held >= 2000
       /\ LastFrame.strength <= 995 => LastFrame.timer = 0

(***************************************************************************)
(* Properties of the triangle's glow.                                      *)
(***************************************************************************)

\* A step that is a credited call of checkBreathClick: in the peak window, in
\* a cycle other than lastClickCycle.
CreditedStep ==
    /\ triLog' # triLog
    /\ Len(triLog') >= 1
    /\ isPeakMoment(tri, now)
    /\ currentCycle(tri, now) # tri.lastClickCycle

\* A credited call turns the glow on and leaves one pending expiry, due 500 ms
\* after the call.
GlowArmed ==
    CreditedStep
    => /\ tri'.triangleGlowActive
       /\ tri'.glowTimeout = now + 500
       /\ tri'.timers = {now + 500}

\* The step is the expiry of the timer of the most recent credited click.
GlowExpires ==
    /\ tri.glowTimeout # 0
    /\ tri.glowTimeout \in tri.timers
    /\ now >= tri.glowTimeout
    /\ tri'.glowTimeout = 0
    /\ tri'.timers = {}

\* The step is a call of checkBreathClick outside the peak window.
MissStep ==
    /\ triLog' # triLog
    /\ Len(triLog') >= 1
    /\ ~isPeakMoment(tri, now)

\* C15 as stated: the glow goes on at a credited click, which leaves only its
\* own expiry pending, and the glow goes off only when the timer set 500 ms
\* after the most recent credited click expires, not earlier.
C15_GlowOffOnlyAtExpiry ==
    [][ /\ GlowArmed
        /\ (tri.triangleGlowActive /\ ~tri'.triangleGlowActive) => GlowExpires
      ]_vars

\* C15, amended: the same, except that a click outside the peak window and
\* show() also turn the glow off, before the 500 ms are over; no timer other
\* than that of the most recent credited click is ever pending, and while the
\* glow is on that timer is pending.
C15_GlowOffAtExpiryOrMiss ==
    /\ [](/\ tri.timers \subseteq {tri.glowTimeout}
          /\ tri.triangleGlowActive => tri.glowTimeout \in tri.timers)
    /\ [][ /\ GlowArmed
           /\ (tri.triangleGlowActive /\ ~tri'.triangleGlowActive)
              => \/ GlowExpires
                 \/ MissStep
                 \/ tri' = show(tri)
         ]_vars

\* A click was credited while the expiry set for an earlier click was still
\* pending (show() had turned that glow off without clearing its timer): the
\* glow is on and the one pending expiry is that of the latest click.
C15_Witness ==
    /\ Len(triLog) >= 1
    /\ LastClick.peak /\ ~LastClick.same
    /\ LastClick.pendingBefore /\ ~LastClick.glowBefore
    /\ tri.triangleGlowActive
    /\ tri.timers = {tri.glowTimeout}

(***************************************************************************)
(* Properties of the whole progression.                                    *)
(***************************************************************************)

\* C16: in the run of a visitor who does each step of the progression
\* correctly, every clock attempt raises saturnCounter by one and the third
\* unlocks Saturn's secret; every breath click is credited and the step that
\* unlocks the trinity secret also makes the flower the active tableau; every
\* flower click is accepted, the thirteenth sets showMetatron and the overlay
\* is visible once the reveal delay of 500 ms has elapsed; each secret needs
\* the one before it and an unlock flag that is true stays true.
C16_ProgressionExecutable ==
    /\ [](/\ Len(saturnLog) >= 1
             => /\ LastCall.counter = LastCall.before + 1
                /\ LastCall.ret = (LastCall.counter = 3)
                /\ LastCall.ret => state.saturnSecretUnlocked
          /\ Len(triLog) >= 1
             => /\ LastClick.peak /\ ~LastClick.same
                /\ LastClick.ret = (LastClick.before = 2)
          /\ Len(flowerLog) >= 1
             => /\ LastFlowerClick.ret
                /\ LastFlowerClick.meta = (LastFlowerClick.after = 13)
          /\ state.saturnSecretUnlocked => state.cubeSecretUnlocked
          /\ state.trinitySecretUnlocked => state.saturnSecretUnlocked
          /\ flower.showMetatron
             => /\ state.trinitySecretUnlocked /\ state.showFlower
                /\ comp.showMetatron
                /\ \/ flower.metatronVisible /\ ~flower.flowerGroupVisible
                   \/ /\ Len(flower.timers) = 1
                      /\ now < flower.timers[1] + TickMs
                      /\ flower.timers[1] <= now + 500)
    /\ [][ /\ \A f \in SecretFlags : state[f] => state'[f]
           /\ (~state.trinitySecretUnlocked /\ state'.trinitySecretUnlocked)
              => state'.showFlower /\ ~state'.showTriangle
         ]_vars

\* The end of the progression: the three secrets are unlocked, the flower is
\* the active tableau, the thirteen circles have been clicked in order and the
\* reveal delay has passed, so the Metatron overlay is visible.
C16_Witness ==
    /\ \A f \in SecretFlags : state[f]
    /\ state.showFlower
    /\ Len(flower.metatronClicks) = 13
    /\ flower.showMetatron
    /\ flower.metatronVisible
    /\ comp.showMetatron
    /\ ~comp.magicMode

(***************************************************************************)
(* Properties of the keyboard.                                             *)
(***************************************************************************)

\* C17: in the cube tableau, once every handler registered for the stroke has
\* run, a stroke of Space leaves autoRotate the negation of what it was, and a
\* stroke of Escape leaves autoRotate true.
C17_SpaceFlipsEscapeSets ==
    ( Len(keyLog) = 1 /\ keyLog[1].cube )
    => /\ keyLog[1].key = " " => keyLog[1].after = ~keyLog[1].before
       /\ keyLog[1].key = "Escape" => keyLog[1].after

(***************************************************************************)
(* Properties of the reveal strength.                                      *)
(***************************************************************************)

C19_ClockGateTerminal ==
    ( Len(saturnLog) >= 1 /\ LastCall.unlockedBefore )
    => /\ LastCall.before = 3
       /\ LastCall.counter = 3
       /\ LastCall.unlocked

\* C20: between two show() calls, of the clicks made during one cycle of the
\* breath at most one is credited (increments breathCounter), also in the cycle
\* whose click achieves trinity and in cycles after an off-window reset.
C20_OneCreditPerCycle ==
    \A i \in 1..Len(triLog) : \A j \in 1..Len(triLog) :
        ( /\ i < j
          /\ triLog[i].anchor = triLog[j].anchor
          /\ triLog[i].cycle = triLog[j].cycle )
        => ~( /\ triLog[i].peak /\ ~triLog[i].same
              /\ triLog[j].peak /\ ~triLog[j].same )

(***************************************************************************)
(* Properties of the breath's anchor.                                      *)
(***************************************************************************)

\* C21: breathStartTime changes in two ways only: show() clears it to 0, and
\* the first updateBreath call after that sets it to the instant of the call;
\* no later updateBreath and no checkBreathClick changes it.
C21_AnchorSetOnce ==
    [][ /\ tri'.breathStartTime # tri.breathStartTime
           => \/ tri' = show(tri)
              \/ /\ tri.breathStartTime = 0
                 /\ tri' = updateBreath(tri, now)
                 /\ tri'.breathStartTime = now
        /\ (triLog' # triLog /\ triLog' # << >>)
           => tri'.breathStartTime = tri.breathStartTime
      ]_vars

\* The triangle has been shown, a frame has set the anchor, more than a whole
\* cycle of frames and a click have followed, and the anchor is still the one
\* the click was judged by.
C21_Witness ==
    /\ tri.visible
    /\ tri.breathStartTime > TickMs
    /\ now - tri.breathStartTime >= cycleDuration
    /\ tri.breathPhase = "exhale"
    /\ Len(triLog) >= 1
    /\ LastClick.anchor = tri.breathStartTime

(***************************************************************************)
(* Properties of the flower's gate in every reachable state.               *)
(***************************************************************************)

\* C22: in every state reachable by handleClick, reset, show and hide calls,
\* showMetatron is true exactly when metatronClicks has length 13.
C22_MetatronIffThirteen ==
    flower.showMetatron <=> Len(flower.metatronClicks) = 13

\* C28: in every state reachable by handleClick, reset, show and hide calls,
\* metatronClicks is the first n ids of FRUIT_OF_LIFE_ORDER for some n in
\* 0..13, so it holds no id twice and none out of order.
C28_ClicksArePrefix ==
    /\ Len(flower.metatronClicks) \in 0..13
    /\ flower.metatronClicks
         = SubSeq(<<0, 1, 3, 5, 2, 4, 6, 7, 9, 11, 8, 10, 12>>,
                  1, Len(flower.metatronClicks))
    /\ \A i \in DOMAIN flower.metatronClicks :
          \A j \in DOMAIN flower.metatronClicks :
              i # j => flower.metatronClicks[i] # flower.metatronClicks[j]

\* Eight clicks are recorded, the latest an accepted click on circle 7, the
\* first of the outer ring, made at a later instant than the start.
C28_Witness ==
    /\ Len(flower.metatronClicks) = 8
    /\ flower.metatronClicks[8] = 7
    /\ Len(flowerLog) = 1 /\ LastFlowerClick.ret /\ LastFlowerClick.after = 8
    /\ flower.flowerGroupVisible
    /\ now > TickMs

(***************************************************************************)
(* Properties of the flower tableau in the component.                      *)
(***************************************************************************)

\* C23: while the flower stays the active tableau, once the pattern is
\* complete showMetatron stays true through every later event (the reveal
\* callback, key strokes, the flower button, frames), and a click on the
\* canvas is rejected and changes nothing.
C23_CompletionTerminal ==
    [][ ( flower.showMetatron /\ state.showFlower /\ state'.showFlower )
        => /\ flower'.showMetatron
           /\ Len(flower'.metatronClicks) = 13
           /\ flowerLog' # flowerLog => ~flowerLog'[1].ret
      ]_vars

\* C24: the reveal callback does not outlive the flower tableau: whatever the
\* order of navigation, clicks and timer firings, Metatron's Cube is visible
\* only while the flower is the active tableau.
C24_OverlayOnlyInFlower ==
    ~state.showFlower => ~flower.metatronVisible

\* C27: the component's showMetatron becomes true only on the click that
\* completes the pattern: the step that sets it leaves thirteen clicks
\* recorded in the flower.
C27_HintOnlyWhenComplete ==
    [][ ( ~comp.showMetatron /\ comp'.showMetatron )
        => Len(flower'.metatronClicks) = 13 ]_vars

(***************************************************************************)
(* Properties of the keyboard and the pointer outside the cube tableau.    *)
(***************************************************************************)

\* C26: autoRotate changes only while the cube is the active tableau: no
\* key stroke, click or button received while another tableau is active
\* changes the store's autoRotate.
C26_AutoRotateOnlyInCube ==
    [][ ~state.showCube => state'.autoRotate = state.autoRotate ]_vars

(***************************************************************************)
(* Properties of the triangle tableau in the component.                    *)
(***************************************************************************)

\* C30: every click that the breath gate evaluates in the triangle tableau
\* finds the cycle anchor set: a frame has run updateBreath between the
\* latest show() and the click.
C30_ClickFindsAnchorSet ==
    \A i \in 1..Len(triLog) : triLog[i].anchor # 0

(***************************************************************************)
(* Properties of the progression without the magic word.                   *)
(***************************************************************************)

\* C29: without the magic word and without RESET_STATE, a tableau is shown
\* only after the gate before it has succeeded, and a secret is unlocked only
\* after the one before it: showSaturn implies cubeSecretUnlocked,
\* showTriangle implies saturnSecretUnlocked, showFlower implies
\* trinitySecretUnlocked, saturnSecretUnlocked implies cubeSecretUnlocked and
\* trinitySecretUnlocked implies saturnSecretUnlocked.
C29_UnlockChain ==
    ~comp.magicMode =>
        /\ state.showSaturn => state.cubeSecretUnlocked
        /\ state.showTriangle => state.saturnSecretUnlocked
        /\ state.showFlower => state.trinitySecretUnlocked
        /\ state.saturnSecretUnlocked => state.cubeSecretUnlocked
        /\ state.trinitySecretUnlocked => state.saturnSecretUnlocked

\* The visitor has opened the flower and gone back to Saturn.
C29_Witness ==
    /\ ~comp.magicMode
    /\ state.showSaturn
    /\ state.trinitySecretUnlocked
    /\ dispatched = "SHOW_SATURN"

(***************************************************************************)
(* Properties of the routing of clicks on the canvas.                      *)
(***************************************************************************)

\* C25, as stated: a pointer-down on the canvas changes the counter or
\* progress of no gate whose tableau is not the active one.
C25_ClicksChangeActiveGateOnly ==
    [][ PointerDown =>
          /\ ~state.showSaturn => saturn' = saturn
          /\ ~state.showTriangle =>
                /\ tri'.breathCounter = tri.breathCounter
                /\ tri'.lastClickCycle = tri.lastClickCycle
          /\ ~state.showFlower =>
                flower'.metatronClicks = flower.metatronClicks
      ]_vars

\* C25, amended: a pointer-down on the canvas is handled by the branch of the
\* active tableau and changes the counter or progress of no other gate, but
\* for the breath click that achieves trinity: it shows the flower, and being
\* shown empties the flower's recorded clicks.
C25_ClicksReachActiveGateOnly ==
    [][ PointerDown =>
          /\ ~state.showSaturn => saturn' = saturn
          /\ ~state.showTriangle =>
                /\ tri'.breathCounter = tri.breathCounter
                /\ tri'.lastClickCycle = tri.lastClickCycle
          /\ ~state.showFlower =>
                \/ flower'.metatronClicks = flower.metatronClicks
                \/ /\ state.showTriangle
                   /\ state'.showFlower
                   /\ state'.trinitySecretUnlocked
                   /\ flower'.metatronClicks = << >>
      ]_vars

\* The second breath has been credited in the triangle tableau while the
\* hidden flower keeps the click recorded on an earlier visit.
C25_Witness ==
    /\ state.showTriangle
    /\ Len(triLog) >= 2
    /\ tri.breathCounter = 2
    /\ ~flower.flowerGroupVisible
    /\ flower.metatronClicks = << 0 >>

====
